---- MODULE Spec2Model ----
(***************************************************************************)
(* Model of src/core/lib/promise/detail/promise_factory.h.                 *)
(*                                                                         *)
(* The header is a compile-time adaptor.  What is modelled:                *)
(*   - the type of the callable F (how it can be invoked, what each        *)
(*     invocation returns, what its move constructor leaves behind);       *)
(*   - overload resolution over the six PromiseFactoryImpl overloads,      *)
(*     including substitution of ResultOf<> and the enable_if conditions;  *)
(*   - the bodies of the overloads, Curried, and the two PromiseFactory    *)
(*     classes with their Once and Repeated members;                       *)
(*   - polling the promises that were produced.                            *)
(* A translation unit that is rejected by the compiler is a behaviour that *)
(* ends in pc = "rejected" with the diagnostic in diag.                    *)
(***************************************************************************)
EXTENDS Integers, Sequences, FiniteSets, TLC

\* bounds of the model
MaxCap   == 2   \* the callable's captured state ranges over 0..MaxCap
MaxArg   == 1   \* arguments passed to the factory range over 0..MaxArg
MaxOps   == 3   \* number of Once/Repeated calls the program makes
MaxPolls == 1   \* number of times each promise is polled

None == "none"
NoArg == 0 - 1

---------------------------------------------------------------------------
\* Types.  A type is described by what invoking a value of it yields:
\* zero = result of x(), one = result of x(a), "none" when the call is not
\* legal; move = what the move constructor leaves in the source.

ResultKinds == {"raw", "status", "promise"}

CallableTypes ==
  [name : {"F"}, zero : ResultKinds \cup {None}, one : ResultKinds \cup {None},
   move : {"copy", "reset"}]

IntType  == [name |-> "int",  zero |-> None, one |-> None, move |-> "copy"]
VoidType == [name |-> "void", zero |-> None, one |-> None, move |-> "copy"]

\* Poll<T>: pending or done(value)
Pending  == [tag |-> "pending", v |-> 0]
Done(v)  == [tag |-> "done", v |-> v]
NoResult == [tag |-> "none", v |-> 0]

VARIABLES
  F,         \* the type of the callable the factory is built over
  A,         \* the factory's argument type: VoidType or IntType
  f0,        \* the callable's captured state when the factory was constructed
  f_,        \* PromiseFactory::f_ : [c : captured state, moved : moved-from?]
  pc,        \* "declared" (no member used yet), "live", "rejected"
  diag,      \* compiler diagnostic: "ok", "hard_error", "ambiguous", "no_match", "ill_formed"
  subst,     \* outcome of substituting each candidate overload at the last call
  selected,  \* overload chosen at the last call, or "none"
  promises,  \* the promises produced so far, in order
  onceCount, \* number of Once calls the program contains so far
  repCount   \* number of Repeated calls the program contains so far

vars == <<F, A, f0, f_, pc, diag, subst, selected, promises, onceCount, repCount>>

---------------------------------------------------------------------------
\* The user's callable.  Its behaviour is a pure function of its captured
\* state c and of the argument: f() yields c, f(x) yields c + x, read as a
\* raw value, as a Poll (pending unless positive) or as the state of the
\* promise it returns, according to the result kind.

Result0(T, c)    == [kind |-> T.zero, v |-> c]
Result1(T, c, x) == [kind |-> T.one, v |-> c + x]
AsStatus(v)      == IF v > 0 THEN Done(v) ELSE Pending

\* the moved-from state a move constructor leaves in its source
MovedFrom_Keeps(T, f) == [c |-> f.c, moved |-> TRUE]
MovedFrom(T, f) == [c |-> IF T.move = "copy" THEN f.c ELSE 0, moved |-> TRUE]

---------------------------------------------------------------------------
\* Callable-shape introspection (lines 55-93)

\* IsVoidCallable<R>(): is calling a value of the result kind R with no
\* argument legal?  Only a result that is itself a promise is callable.
IsVoidCallable_AlsoStatus(R) == R # "raw"
IsVoidCallable(R) == R = "promise"

\* ResultOf<F()> (probe "zero") and ResultOf<F(A)> (probe "one").  ResultOfT
\* names ResultOfTInner<...>::T inside its body, so when the call is not
\* legal the instantiation of ResultOfT fails outside the immediate context
\* of the substitution: a hard error, not a substitution failure.
ResultOf(T, probe) ==
  LET R == IF probe = "zero" THEN T.zero ELSE T.one
  IN  IF R = None THEN "hard_error" ELSE R

---------------------------------------------------------------------------
\* The PromiseFactoryImpl overload set (lines 110-156), in source order.
\* arity = number of function parameters, probe = the invocation inspected
\* by the enable_if, promise = whether the enable_if wants a result that is
\* itself a promise, param = how the callable is taken.
Overloads == {"O1", "O2", "O3", "O4", "O5", "O6"}

Signature ==
  [ O1 |-> [arity |-> 2, probe |-> "one",  promise |-> FALSE, param |-> "forward"],
    O2 |-> [arity |-> 2, probe |-> "zero", promise |-> FALSE, param |-> "value"],
    O3 |-> [arity |-> 1, probe |-> "zero", promise |-> FALSE, param |-> "value"],
    O4 |-> [arity |-> 2, probe |-> "one",  promise |-> TRUE,  param |-> "forward"],
    O5 |-> [arity |-> 2, probe |-> "zero", promise |-> TRUE,  param |-> "forward"],
    O6 |-> [arity |-> 1, probe |-> "zero", promise |-> TRUE,  param |-> "forward"] ]

NotConsidered == "not_considered"

\* Substituting the deduced template arguments into the return type of
\* overload o: "hard_error", "viable" or "sfinae" (enable_if false).
Substitute_Inverted(o, T) ==
  LET R == ResultOf(T, Signature[o].probe)
  IN  IF R = "hard_error" THEN "hard_error"
      ELSE IF IsVoidCallable(R) # Signature[o].promise THEN "viable"
      ELSE "sfinae"
Substitute(o, T) ==
  LET R == ResultOf(T, Signature[o].probe)
  IN  IF R = "hard_error" THEN "hard_error"
      ELSE IF IsVoidCallable(R) = Signature[o].promise THEN "viable"
      ELSE "sfinae"

\* The candidates of a call with nargs arguments, each with its outcome.
Candidates(T, nargs) ==
  [o \in Overloads |->
     IF Signature[o].arity = nargs THEN Substitute(o, T) ELSE NotConsidered]

Viable(S) == {o \in Overloads : S[o] = "viable"}

\* Choosing among the viable candidates.  Every candidate binds the callable
\* and the argument with an identity conversion (F&& and F by value rank the
\* same) and no template is more specialized than another, so two viable
\* candidates are an ambiguity.
Select_PreferZero(V) ==
  IF V = {} THEN "no_match"
  ELSE IF \E o \in V : Signature[o].probe = "zero"
       THEN CHOOSE o \in V : Signature[o].probe = "zero"
       ELSE CHOOSE o \in V : TRUE
Select(V) ==
  IF V = {} THEN "no_match"
  ELSE IF Cardinality(V) = 1 THEN CHOOSE o \in V : TRUE
  ELSE "ambiguous"

\* Overload resolution of PromiseFactoryImpl(f [, arg]).
Resolve(T, nargs) ==
  LET S == Candidates(T, nargs)
  IN  IF \E o \in Overloads : S[o] = "hard_error" THEN "hard_error"
      ELSE Select(Viable(S))

---------------------------------------------------------------------------
\* Curried<F, Arg> (lines 95-108): its constructor takes (F&&, Arg&&), its
\* Result typedef needs a value of its first parameter to be callable with
\* a value of its second one.  Fp, Argp are the template arguments, fT and
\* argT the types of the constructor's actual arguments.
CurriedWellFormed(Fp, Argp, fT, argT) ==
  /\ Fp.one # None
  /\ fT = Fp
  /\ argT = Argp

\* Curried::operator() : f_(arg_)
CurriedCall(T, c, arg) == Result1(T, c, arg)

\* Is the body of the selected overload well-formed?  The capturing overload
\* (line 115) names Curried<A, F>: the argument type in the place of the
\* callable, the callable's type in the place of the argument.
BodyWellFormed(o, T, AT) ==
  o = "O1" => CurriedWellFormed(AT, T, T, AT)

\* A parameter declared `F f` (lines 122, 129) is a new object: move-
\* constructed from an rvalue, copy-constructed from an lvalue.
ValueParam_Copies(T, cat, f) == [param |-> f.c, source |-> f]
ValueParam(T, cat, f) ==
  IF cat = "rvalue"
  THEN [param |-> f.c, source |-> MovedFrom(T, f)]
  ELSE [param |-> f.c, source |-> f]

\* The body of overload o applied to the factory's callable f, passed with
\* value category cat, and to the argument x (NoArg when there is none):
\* what the returned PromiseLike wraps, the invocations of the callable made
\* while adapting, and the state the factory's callable is left in.
\*   wrap "callable": PromiseLike<F> owning a callable with state c
\*   wrap "curried" : PromiseLike<Curried> owning callable and argument
\*   wrap "inner"   : PromiseLike over the promise the callable returned
Body(o, T, cat, f, x) ==
  CASE o \in {"O2", "O3"} ->
         LET vp == ValueParam(T, cat, f)
         IN  [wrap |-> "callable", c |-> vp.param, arg |-> NoArg,
              adaptCalls |-> 0, adaptArg |-> NoArg, after |-> vp.source]
    [] o \in {"O5", "O6"} ->
         [wrap |-> "inner", c |-> Result0(T, f.c).v, arg |-> NoArg,
          adaptCalls |-> 1, adaptArg |-> NoArg, after |-> f]
    [] o = "O4" ->
         [wrap |-> "inner", c |-> Result1(T, f.c, x).v, arg |-> NoArg,
          adaptCalls |-> 1, adaptArg |-> x, after |-> f]
    [] o = "O1" ->
         [wrap |-> "curried", c |-> f.c, arg |-> x,
          adaptCalls |-> 0, adaptArg |-> NoArg,
          after |-> IF cat = "rvalue" THEN MovedFrom(T, f) ELSE f]

---------------------------------------------------------------------------
\* PromiseLike<P>::operator() (promise_like.h): invoke the wrapped callable
\* and wrap a raw result in a Poll; a Poll is returned as it is.  A result
\* of kind "promise" stands for the state of an inner promise, whose own
\* invocation yields a Poll.
WrapInPoll(r) == IF r.kind = "raw" THEN Done(r.v) ELSE AsStatus(r.v)

\* Invoking promise p once: the Poll it returns.
Invoke(T, p) ==
  CASE p.wrap = "callable" -> WrapInPoll(Result0(T, p.c))
    [] p.wrap = "curried"  -> WrapInPoll(CurriedCall(T, p.c, p.arg))
    [] p.wrap = "inner"    -> AsStatus(p.c)

\* Does invoking p invoke the user's callable?
InvokesCallable(p) == p.wrap \in {"callable", "curried"}

---------------------------------------------------------------------------
Init ==
  /\ F \in CallableTypes
  /\ A \in {VoidType, IntType}
  /\ f0 \in 0..MaxCap
  /\ f_ = [c |-> f0, moved |-> FALSE]
  /\ pc = "declared"
  /\ diag = "ok"
  /\ subst = [o \in Overloads |-> NotConsidered]
  /\ selected = "none"
  /\ promises = <<>>
  /\ onceCount = 0
  /\ repCount = 0

NArgs == IF A = VoidType THEN 1 ELSE 2

\* A call of PromiseFactoryImpl from a member of the factory: op is the
\* member, cat the value category f_ is passed with, x the argument.
\* Instantiating the class first resolves the same call in the Promise
\* typedef (lines 165-166, 186).
Adapt(op, cat, x) ==
  LET S == Candidates(F, NArgs)
      r == Resolve(F, NArgs)
  IN  /\ subst' = S
      /\ IF r \notin Overloads
         THEN /\ pc' = "rejected"
              /\ diag' = r
              /\ selected' = "none"
              /\ UNCHANGED <<f_, promises>>
         ELSE IF ~BodyWellFormed(r, F, A)
         THEN /\ pc' = "rejected"
              /\ diag' = "ill_formed"
              /\ selected' = r
              /\ UNCHANGED <<f_, promises>>
         ELSE LET b == Body(r, F, cat, f_, x)
              IN  /\ pc' = "live"
                  /\ diag' = "ok"
                  /\ selected' = r
                  /\ f_' = b.after
                  /\ promises' = Append(promises,
                        [op |-> op,
                         nth |-> IF op = "Once" THEN onceCount + 1 ELSE repCount + 1,
                         wrap |-> b.wrap, c |-> b.c, arg |-> b.arg,
                         src |-> f_.c, given |-> x,
                         adaptCalls |-> b.adaptCalls, adaptArg |-> b.adaptArg,
                         fcalls |-> 0, polls |-> 0, last |-> NoResult])

CanCall == pc # "rejected" /\ onceCount + repCount < MaxOps

\* PromiseFactory<A, F>::Once(Arg&& a)  (lines 170-172)
Once(x) ==
  /\ CanCall
  /\ A = IntType
  /\ Adapt("Once", "rvalue", x)
  /\ onceCount' = onceCount + 1
  /\ UNCHANGED <<F, A, f0, repCount>>

\* PromiseFactory<A, F>::Repeated(Arg&& a) const  (lines 174-176)
Repeated(x) ==
  /\ CanCall
  /\ A = IntType
  /\ Adapt("Repeated", "lvalue", x)
  /\ repCount' = repCount + 1
  /\ UNCHANGED <<F, A, f0, onceCount>>

\* PromiseFactory<void, F>::Once()  (line 190)
OnceVoid ==
  /\ CanCall
  /\ A = VoidType
  /\ Adapt("Once", "rvalue", NoArg)
  /\ onceCount' = onceCount + 1
  /\ UNCHANGED <<F, A, f0, repCount>>

\* PromiseFactory<void, F>::Repeated() const  (line 192)
RepeatedVoid ==
  /\ CanCall
  /\ A = VoidType
  /\ Adapt("Repeated", "lvalue", NoArg)
  /\ repCount' = repCount + 1
  /\ UNCHANGED <<F, A, f0, onceCount>>

\* The owner of promise i invokes it.
Poll(i) ==
  /\ pc = "live"
  /\ i \in 1..Len(promises)
  /\ promises[i].polls < MaxPolls
  /\ promises' = [promises EXCEPT
        ![i].polls = @ + 1,
        ![i].fcalls = IF InvokesCallable(promises[i]) THEN @ + 1 ELSE @,
        ![i].last = Invoke(F, promises[i])]
  /\ UNCHANGED <<F, A, f0, f_, pc, diag, subst, selected, onceCount, repCount>>

Next ==
  \/ \E x \in 0..MaxArg : Once(x)
  \/ \E x \in 0..MaxArg : Repeated(x)
  \/ OnceVoid
  \/ RepeatedVoid
  \/ \E i \in 1..MaxOps : Poll(i)

Spec == Init /\ [][Next]_vars

---------------------------------------------------------------------------
\* Vocabulary of the properties

Attempted == onceCount + repCount >= 1
WithArg == A = IntType
OneArgOnly(k) == WithArg /\ F.one = k /\ F.zero = None
BothWays == F.zero # None /\ F.one # None
Supported ==
  IF WithArg THEN F.zero # None \/ F.one # None ELSE F.zero # None
Made(op) == {i \in 1..Len(promises) : promises[i].op = op}

\* C1: adapting a one-argument callable f that returns a raw value with x,
\* through PromiseFactory<A,F>::Once(x), is well-formed; invoking the promise
\* returns done(f(x)), and up to that invocation f was invoked exactly once,
\* with x.
C1_Claim ==
  (OneArgOnly("raw") /\ onceCount >= 1) =>
     /\ pc = "live" /\ diag = "ok"
     /\ Cardinality(Made("Once")) = onceCount
     /\ \A i \in Made("Once") :
          promises[i].polls >= 1 =>
            /\ promises[i].last = Done(Result1(F, promises[i].src, promises[i].given).v)
            /\ promises[i].adaptCalls + promises[i].fcalls = 1

\* C2 as stated: a callable invocable both with no argument and with one,
\* adapted with an argument, selects a zero-argument strategy; the callable
\* is never handed the argument.
C2_Claim ==
  (BothWays /\ WithArg /\ Attempted) =>
     /\ diag = "ok"
     /\ selected \in {"O2", "O5"}
     /\ \A i \in 1..Len(promises) :
          promises[i].adaptArg = NoArg /\ promises[i].wrap # "curried"

\* C2 amended: for a callable invocable both ways, adaptation with an
\* argument selects no strategy: one zero-argument and one one-argument
\* overload are both viable, the call is ambiguous, and the callable is
\* never invoked.
C2_Amended ==
  (BothWays /\ WithArg /\ Attempted) =>
     /\ diag = "ambiguous" /\ pc = "rejected" /\ selected = "none"
     /\ Cardinality(Viable(subst)) = 2
     /\ \E o \in Viable(subst) : Signature[o].probe = "zero"
     /\ \E o \in Viable(subst) : Signature[o].probe = "one"
     /\ promises = <<>>

C2_Witness ==
  BothWays /\ WithArg /\ onceCount = 1 /\ diag = "ambiguous"

\* C3: adapting a one-argument callable f that returns a Status with x:
\* invoking the promise returns exactly f(x), pending or done(value).
C3_Claim ==
  (OneArgOnly("status") /\ onceCount >= 1) =>
     /\ pc = "live" /\ diag = "ok"
     /\ Cardinality(Made("Once")) = onceCount
     /\ \A i \in Made("Once") :
          promises[i].polls >= 1 =>
            promises[i].last = AsStatus(Result1(F, promises[i].src, promises[i].given).v)

\* C4: a zero-argument callable f adapted through
\* PromiseFactory<void,F>::Once(): the call is accepted, and invoking the
\* promise returns done(v) when f() returns the raw value v, and s itself
\* when f() returns the Status s.
C4_ZeroArgOnce ==
  (A = VoidType /\ F.zero \in {"raw", "status"} /\ onceCount >= 1) =>
     /\ pc = "live" /\ diag = "ok"
     /\ Cardinality(Made("Once")) = onceCount
     /\ \A i \in Made("Once") :
          promises[i].polls >= 1 =>
            LET r == Result0(F, promises[i].src)
            IN  promises[i].last =
                  IF r.kind = "raw" THEN Done(r.v) ELSE AsStatus(r.v)

C4_Witness ==
  /\ A = VoidType /\ F.zero = "raw" /\ f0 = 0
  /\ \E i \in Made("Once") : promises[i].nth = 1 /\ promises[i].last = Done(0)

C6_Identical ==
  \A i, j \in Made("Repeated") :
     (/\ promises[i].given = promises[j].given
      /\ promises[i].src = promises[j].src
      /\ promises[i].polls >= 1 /\ promises[j].polls >= 1)
     => promises[i].last = promises[j].last

C6_Claim ==
  [][(repCount' = repCount + 1 /\ Supported /\ ~BothWays) =>
       /\ pc' = "live"
       /\ f_' = f_
       /\ Len(promises') = Len(promises) + 1
       /\ C6_Identical']_vars

\* C7: dispatch is total and unambiguous: for every callable invocable with
\* no argument, with one argument or both ways, exactly one strategy is
\* selected; for a callable invocable in neither way, none.
C7_Claim ==
  Attempted =>
    IF Supported
    THEN selected \in Overloads /\ diag = "ok" /\ Cardinality(Viable(subst)) = 1
    ELSE selected = "none" /\ diag # "ok"

\* C8: when the callable's result is itself a promise, every Once or
\* Repeated call invokes the callable exactly once during that call (with
\* the argument for a one-argument callable) and returns the promise it
\* produced; polling that promise never invokes the callable.
PromiseReturning ==
  IF WithArg
  THEN \/ (F.one = "promise" /\ F.zero = None)
       \/ (F.zero = "promise" /\ F.one = None)
  ELSE F.zero = "promise"

C8_Claim ==
  (PromiseReturning /\ Attempted) =>
     /\ pc = "live" /\ diag = "ok"
     /\ Len(promises) = onceCount + repCount
     /\ \A i \in 1..Len(promises) :
          /\ promises[i].wrap = "inner"
          /\ promises[i].adaptCalls = 1
          /\ promises[i].adaptArg =
               IF WithArg /\ F.one = "promise" THEN promises[i].given ELSE NoArg
          /\ promises[i].fcalls = 0

C10_Claim ==
  \A i \in Made("Once") :
     f_.moved /\ promises[i].wrap \in {"callable", "curried"}

\* C10 amended: after Once returns, the stored callable is moved-from and
\* the returned promise owns its state when the callable's result is a raw
\* value or a Status; when the result is itself a promise, Once only invokes
\* the stored callable in place: it is not moved from and the factory keeps
\* its state.
C10_Amended ==
  \A i \in Made("Once") :
     LET k == ResultOf(F, Signature[selected].probe)
     IN  /\ k \in {"raw", "status"} =>
              /\ f_.moved
              /\ promises[i].wrap \in {"callable", "curried"}
              /\ promises[i].c = promises[i].src
         /\ k = "promise" =>
              /\ ~f_.moved /\ f_.c = f0
              /\ promises[i].wrap = "inner"

C10_Witness ==
  /\ F.zero = "promise" /\ F.move = "reset" /\ f0 > 0
  /\ onceCount = 2 /\ ~f_.moved /\ f_.c = f0
  /\ \A i \in 1..2 : i \in Made("Once") /\ promises[i].last = Done(f0)

====
